---- MODULE Spec2Model ----
(***************************************************************************)
(* The authorization request broker of Keystache (tauriCommands.ts):       *)
(* two registries of decision handlers, the two backend event listeners    *)
(* that poll the registered handlers one at a time, and the two response   *)
(* commands sent back to the backend.                                      *)
(*                                                                         *)
(* JavaScript values are modelled as strings ("true", "false", "paid",     *)
(* "failed", "denied"); Truthy is JavaScript's ToBoolean on them.          *)
(*                                                                         *)
(* app is the state of the App component (App.tsx), whose dialog is a      *)
(* sign-event handler; subscriptions are the backend event subscriptions   *)
(* made by the executions of the module.                                   *)
(***************************************************************************)
EXTENDS Integers, Sequences, FiniteSets

VARIABLES signEventRequestHandlers, payInvoiceRequestHandlers,
          registrations, requests, app, subscriptions

vars == <<signEventRequestHandlers, payInvoiceRequestHandlers,
          registrations, requests, app, subscriptions>>

(* ------------------------------ bounds -------------------------------- *)

\* getRandomInt(max) is called with max = 1000000; the model draws from 0..MaxInt-1.
MaxInt == 2
\* Calls of handleSignEventRequests / handlePayInvoiceRequests in one run.
MaxRegistrations == 2
\* Backend request events delivered in one run.
MaxRequests == 1
\* Backend request events delivered in one run of the specifications about
\* several requests (SpecFaults, SpecConcurrent).
MaxInFlight == 2
\* Reloads of the module (vite hot updates) in one run.
MaxReloads == 1

(* ------------------------------ values -------------------------------- *)

\* An absent property of a registry object (reads as undefined).
Undefined == "undefined"

\* The value null of a ref.
Null == "null"

\* Handler functions a collaborator may register for sign-event requests:
\* the type allows boolean results; a handler may also throw.
SignHandlers == {"signApprove", "signDeny", "signThrow"}

\* Handler functions a collaborator may register for pay-invoice requests:
\* boolean results (the declared type), the three outcomes the doc comment of
\* handlePayInvoiceRequests names, or a throw.
PayHandlers == {"payTrue", "payFalse", "payPaid", "payFailed", "payDenied", "payThrow"}

EventIds == {"e1"}
Pubkeys == {"pkA"}
Invoices == {"lnbc1"}

\* What a call of handler function fn settles to: a value, or a throw/rejection.
HandlerOutcome(fn) ==
    CASE fn = "signApprove" -> [type |-> "return", value |-> "true"]
      [] fn = "signDeny"    -> [type |-> "return", value |-> "false"]
      [] fn = "payTrue"     -> [type |-> "return", value |-> "true"]
      [] fn = "payFalse"    -> [type |-> "return", value |-> "false"]
      [] fn = "payPaid"     -> [type |-> "return", value |-> "paid"]
      [] fn = "payFailed"   -> [type |-> "return", value |-> "failed"]
      [] fn = "payDenied"   -> [type |-> "return", value |-> "denied"]
      [] OTHER              -> [type |-> "throw", value |-> "threw"]

\* The handler the App component registers: its promise is settled by a
\* click in the dialog, never on its own.
DialogHandlers == {"handleEvent"}

\* JavaScript ToBoolean: false and undefined are falsy, a function, true and
\* every non-empty string are truthy.
Truthy(v) == v \notin {"false", Undefined}

\* getRandomInt(max): Math.floor(Math.random() * max) is some integer of 0..max-1.
getRandomInt(max) == 0 .. (max - 1)

(* ----------------------------- registries ----------------------------- *)

EmptyRegistry == [id \in getRandomInt(MaxInt) |-> Undefined]

\* The keys of a registry object.
Keys(handlers) == {id \in DOMAIN handlers : handlers[id] # Undefined}

\* A loop condition that never redraws.
IdInUseNever(handlers, handlerId) == FALSE

\* The loop condition `while (handlers[handlerId])`: the drawn id is taken.
IdInUse(handlers, handlerId) == Truthy(handlers[handlerId])

\* The ids the rejection-sampling loop can end with.
FreshIds(handlers) == {id \in getRandomInt(MaxInt) : ~IdInUse(handlers, id)}

\* `delete handlers[handlerId]`.
Delete(handlers, handlerId) == [handlers EXCEPT ![handlerId] = Undefined]

RECURSIVE SortedIds(_)
\* The integer keys of an object in ascending order, as Object.values visits them.
SortedIds(S) ==
    IF S = {} THEN <<>>
    ELSE LET m == CHOOSE x \in S : \A y \in S : x <= y
         IN <<m>> \o SortedIds(S \ {m})

\* Object.values(handlers): the array of the handlers registered right now.
ObjectValues(handlers) ==
    LET ids == SortedIds(Keys(handlers))
    IN [i \in 1..Len(ids) |-> [id |-> ids[i], fn |-> handlers[ids[i]]]]

(* ---------------------------- registration ---------------------------- *)

\* A registration record stands for the closure returned by a register call:
\* it captured handlerId; `called` tells whether it has been invoked yet.
Registration(kind, handlerId) ==
    [kind |-> kind, handlerId |-> handlerId, called |-> FALSE]

\* handleSignEventRequests(handler): draw ids until one is not in use, store
\* the handler under it, return the unregister closure.
handleSignEventRequests(handler) ==
    /\ Len(registrations) < MaxRegistrations
    /\ \E handlerId \in FreshIds(signEventRequestHandlers) :
         /\ signEventRequestHandlers' =
                [signEventRequestHandlers EXCEPT ![handlerId] = handler]
         /\ registrations' =
                Append(registrations, Registration("sign", handlerId))
    /\ UNCHANGED <<payInvoiceRequestHandlers, requests, app, subscriptions>>

\* handlePayInvoiceRequests(handler): the same on the pay-invoice registry.
handlePayInvoiceRequests(handler) ==
    /\ Len(registrations) < MaxRegistrations
    /\ \E handlerId \in FreshIds(payInvoiceRequestHandlers) :
         /\ payInvoiceRequestHandlers' =
                [payInvoiceRequestHandlers EXCEPT ![handlerId] = handler]
         /\ registrations' =
                Append(registrations, Registration("pay", handlerId))
    /\ UNCHANGED <<signEventRequestHandlers, requests, app, subscriptions>>

\* An unregister closure of the pay-invoice registry that deletes its key
\* from the sign-event registry.
UnregisterWrongRegistry(n) ==
    /\ n \in DOMAIN registrations
    /\ registrations' = [registrations EXCEPT ![n].called = TRUE]
    /\ signEventRequestHandlers' =
           Delete(signEventRequestHandlers, registrations[n].handlerId)
    /\ UNCHANGED <<payInvoiceRequestHandlers, requests, app, subscriptions>>

\* A call of the closure returned by the n-th register call (the first call
\* or any later one): it deletes the key it captured.
Unregister(n) ==
    /\ n \in DOMAIN registrations
    /\ registrations' = [registrations EXCEPT ![n].called = TRUE]
    /\ IF registrations[n].kind = "sign"
       THEN /\ signEventRequestHandlers' =
                   Delete(signEventRequestHandlers, registrations[n].handlerId)
            /\ UNCHANGED payInvoiceRequestHandlers
       ELSE /\ payInvoiceRequestHandlers' =
                   Delete(payInvoiceRequestHandlers, registrations[n].handlerId)
            /\ UNCHANGED signEventRequestHandlers
    /\ UNCHANGED <<requests, app, subscriptions>>

(* ------------------------------ dispatch ------------------------------ *)

\* A verdict that starts out approving.
InitialIsApprovedTrue == "true"

\* `let isApproved = false;`
InitialIsApproved == "false"

\* A loop that never breaks.
BreakLoopNever(isApproved) == FALSE

\* A loop that breaks after the first handler, whatever it returned.
BreakLoopAlways(isApproved) == TRUE

\* `if (isApproved) { break; }`
BreakLoop(isApproved) == Truthy(isApproved)

\* invoke("respond_to_sign_event_request", { eventId, approved })
respondToSignEventRequest(eventId, approved) ==
    [cmd |-> "respond_to_sign_event_request", key |-> eventId, approved |-> approved]

\* invoke("respond_to_pay_invoice_request", { invoice, approved })
respondToPayInvoiceRequest(invoice, approved) ==
    [cmd |-> "respond_to_pay_invoice_request", key |-> invoice, approved |-> approved]

\* The statement after the loop: the response command of the request's kind,
\* called (not awaited) with the correlation key and isApproved; the listener
\* callback then returns.
Respond(req) ==
    [req EXCEPT
       !.sent = Append(@, IF req.kind = "sign"
                          THEN respondToSignEventRequest(req.payload[1], req.isApproved)
                          ELSE respondToPayInvoiceRequest(req.payload[1], req.isApproved)),
       !.promise = "pending",
       !.pc = "done"]

\* A loop head that reads the registry again on every pass instead of the
\* array taken at the start.
LoopHeadLive(req) ==
    LET live == ObjectValues(IF req.kind = "sign" THEN signEventRequestHandlers
                                                  ELSE payInvoiceRequestHandlers)
    IN IF Len(req.calls) < Len(live)
       THEN [req EXCEPT
               !.calls = Append(@, [handlerId |-> live[Len(req.calls) + 1].id,
                                    fn |-> live[Len(req.calls) + 1].fn,
                                    args |-> req.payload, outcome |-> "pending"]),
               !.pc = "awaiting"]
       ELSE Respond(req)

\* A loop head that calls every remaining handler at once, awaiting none.
LoopHeadConcurrent(req) ==
    IF Len(req.calls) < Len(req.handlers)
    THEN [req EXCEPT
            !.calls = @ \o [k \in 1..(Len(req.handlers) - Len(req.calls)) |->
                              [handlerId |-> req.handlers[Len(req.calls) + k].id,
                               fn |-> req.handlers[Len(req.calls) + k].fn,
                               args |-> req.payload, outcome |-> "pending"]],
            !.pc = "awaiting"]
    ELSE Respond(req)

\* One pass through the head of the for-of loop: with a handler left in the
\* array the callback calls it with the payload spread as its arguments and
\* suspends at the await; with none left the loop ends and the response is sent.
LoopHead(req) ==
    IF Len(req.calls) < Len(req.handlers)
    THEN LET next == req.handlers[Len(req.calls) + 1]
         IN [req EXCEPT
               !.calls = Append(@, [handlerId |-> next.id, fn |-> next.fn,
                                    args |-> req.payload, outcome |-> "pending"]),
               !.pc = "awaiting"]
    ELSE Respond(req)

\* The request met a fault: a handler fault rejected its listener callback,
\* or the send of its response failed.
Faulted(req) == req.pc = "rejected" \/ req.promise = "rejected"

\* The listener callback from the arrival of the event to its first suspension.
\* promise is the state of the promise the response command returned (none
\* before the call); afterFault records that an earlier request had met a
\* fault when this one arrived; stale, that the subscription that delivered
\* it belongs to an execution of the module that has been replaced.
Listener(kind, payload, handlers) ==
    LoopHead([kind |-> kind, payload |-> payload,
              handlers |-> ObjectValues(handlers),
              calls |-> <<>>, isApproved |-> InitialIsApproved,
              sent |-> <<>>, promise |-> "none", pc |-> "start",
              afterFault |-> \E q \in DOMAIN requests : Faulted(requests[q]),
              stale |-> FALSE])

\* The execution of the module that is current: the one that subscribed last.
Context == subscriptions[Len(subscriptions)].context

\* The subscriptions of the kind that receive the backend's events.
Active(kind) ==
    {n \in DOMAIN subscriptions :
        subscriptions[n].kind = kind /\ subscriptions[n].state = "active"}

\* The current execution of the module receives the events of the kind.
Subscribed(kind) ==
    \E n \in Active(kind) : subscriptions[n].context = Context

\* handleEvent of the App component, called by the step that took request r
\* from `before` to `after`: when the step invoked it, it shows the event,
\* opens the dialog and stores the resolve function of the promise it
\* returns (named by request and call) in resolveRejectRef, over whatever
\* the ref held; a is the component state the call finds.
handleEvent(r, before, after, a) ==
    IF /\ Len(after.calls) > Len(before.calls)
       /\ after.calls[Len(after.calls)].fn \in DialogHandlers
    THEN [open |-> TRUE, event |-> after.payload[1],
          resolveRejectRef |-> <<r, Len(after.calls)>>]
    ELSE a

\* The request before its listener callback ran.
NotStarted == [calls |-> <<>>]

\* The backend emits sign_event_request with payload [event, userPubkey];
\* the event is opaque to the broker except for its id.
SignEventRequest(eventId, userPubkey) ==
    /\ Len(requests) < MaxRequests
    /\ Subscribed("sign")
    /\ LET req == Listener("sign", <<eventId, userPubkey>>, signEventRequestHandlers)
       IN /\ requests' = Append(requests, req)
          /\ app' = handleEvent(Len(requests) + 1, NotStarted, req, app)
    /\ UNCHANGED <<signEventRequestHandlers, payInvoiceRequestHandlers,
                   registrations, subscriptions>>

\* The backend emits pay_invoice_request with the invoice string as payload.
PayInvoiceRequest(invoice) ==
    /\ Len(requests) < MaxRequests
    /\ Subscribed("pay")
    /\ requests' = Append(requests,
           Listener("pay", <<invoice>>, payInvoiceRequestHandlers))
    /\ UNCHANGED <<signEventRequestHandlers, payInvoiceRequestHandlers,
                   registrations, app, subscriptions>>

\* The awaited handler call of request r settles and the callback resumes:
\* a throw or rejection propagates out of the callback (nothing catches it);
\* a value is assigned to isApproved, a truthy one breaks out of the loop to
\* the response, any other goes on with the next handler.
ResumeWith(req, out) ==
    LET n == Len(req.calls)
        settled == [req EXCEPT !.calls[n].outcome = out.value]
    IN IF out.type = "throw"
       THEN [settled EXCEPT !.pc = "rejected"]
       ELSE LET assigned == [settled EXCEPT !.isApproved = out.value]
            IN IF BreakLoop(assigned.isApproved)
               THEN Respond(assigned)
               ELSE LoopHead(assigned)

\* The same, for a handler function that settles on its own.
Resume(req) == ResumeWith(req, HandlerOutcome(req.calls[Len(req.calls)].fn))

\* The awaited call of request r is one of a handler that settles on its own.
SettlesOnItsOwn(r) ==
    requests[r].calls[Len(requests[r].calls)].fn \in SignHandlers \cup PayHandlers

\* A dispatcher that runs one listener callback at a time: the handler call
\* of request r is resumed only after every earlier request has ended.
HandlerSettlesSerialized(r) ==
    /\ r \in DOMAIN requests
    /\ requests[r].pc = "awaiting"
    /\ \A q \in 1..(r - 1) : requests[q].pc # "awaiting"
    /\ SettlesOnItsOwn(r)
    /\ requests' = [requests EXCEPT ![r] = Resume(requests[r])]
    /\ app' = handleEvent(r, requests[r], requests'[r], app)
    /\ UNCHANGED <<signEventRequestHandlers, payInvoiceRequestHandlers,
                   registrations, subscriptions>>

HandlerSettles(r) ==
    /\ r \in DOMAIN requests
    /\ requests[r].pc = "awaiting"
    /\ SettlesOnItsOwn(r)
    /\ requests' = [requests EXCEPT ![r] = Resume(requests[r])]
    /\ app' = handleEvent(r, requests[r], requests'[r], app)
    /\ UNCHANGED <<signEventRequestHandlers, payInvoiceRequestHandlers,
                   registrations, subscriptions>>

\* The invoke call of the response of request r settles: `return await
\* invoke(...)` settles the promise the response command returned the same
\* way. The listener callback neither awaited nor kept that promise: it has
\* returned, and nothing of the request changes.
InvokeSettles(r, outcome) ==
    /\ r \in DOMAIN requests
    /\ requests[r].promise = "pending"
    /\ requests' = [requests EXCEPT ![r].promise = outcome]
    /\ UNCHANGED <<signEventRequestHandlers, payInvoiceRequestHandlers,
                   registrations, app, subscriptions>>

\* sign_event_request arrives, in a run of up to MaxInFlight requests.
SignEventRequestInFlight(eventId, userPubkey) ==
    /\ Len(requests) < MaxInFlight
    /\ Subscribed("sign")
    /\ LET req == Listener("sign", <<eventId, userPubkey>>, signEventRequestHandlers)
       IN /\ requests' = Append(requests, req)
          /\ app' = handleEvent(Len(requests) + 1, NotStarted, req, app)
    /\ UNCHANGED <<signEventRequestHandlers, payInvoiceRequestHandlers,
                   registrations, subscriptions>>

\* pay_invoice_request arrives, in a run of up to MaxInFlight requests.
PayInvoiceRequestInFlight(invoice) ==
    /\ Len(requests) < MaxInFlight
    /\ Subscribed("pay")
    /\ requests' = Append(requests,
           Listener("pay", <<invoice>>, payInvoiceRequestHandlers))
    /\ UNCHANGED <<signEventRequestHandlers, payInvoiceRequestHandlers,
                   registrations, app, subscriptions>>

(* -------------------------- the dialog (App) -------------------------- *)

\* handleAccept (value true) and handleReject (value false): a click on a
\* button of the open dialog. It calls the resolve function the ref holds
\* and closes the dialog. Resolving a promise that is already settled does
\* nothing; resolving a pending one resumes the listener callback that
\* awaits it, which may invoke the next handler.
Click(value) ==
    /\ app.open
    /\ LET closed == [app EXCEPT !.open = FALSE]
           ref == app.resolveRejectRef
       IN IF ref # Null /\ requests[ref[1]].calls[ref[2]].outcome = "pending"
          THEN LET req == requests[ref[1]]
                   after == ResumeWith(req, [type |-> "return", value |-> value])
               IN /\ requests' = [requests EXCEPT ![ref[1]] = after]
                  /\ app' = handleEvent(ref[1], req, after, closed)
          ELSE /\ requests' = requests
               /\ app' = closed
    /\ UNCHANGED <<signEventRequestHandlers, payInvoiceRequestHandlers,
                   registrations, subscriptions>>

\* The dialog asks to be closed (escape key, close button): onOpenChange is
\* setOpen; no promise is settled.
onOpenChange ==
    /\ app.open
    /\ app' = [app EXCEPT !.open = FALSE]
    /\ UNCHANGED <<signEventRequestHandlers, payInvoiceRequestHandlers,
                   registrations, requests, subscriptions>>

(* --------------------- subscriptions and reloads ---------------------- *)

\* listen(name, callback) as the module executes: the subscription is
\* asked for, the promise of its unlisten function is pending, and no
\* teardown hook is registered yet.
Listen(kind, context) ==
    [kind |-> kind, context |-> context, state |-> "pending", hook |-> FALSE]

\* The listen promise of the n-th subscription resolves: the subscription
\* receives events from now on, and the then-callback registers its
\* unlisten function for vite:beforeUpdate.
ListenResolves(n) ==
    /\ n \in DOMAIN subscriptions
    /\ subscriptions[n].state = "pending"
    /\ subscriptions' = [subscriptions EXCEPT ![n].state = "active", ![n].hook = TRUE]
    /\ UNCHANGED <<signEventRequestHandlers, payInvoiceRequestHandlers,
                   registrations, requests, app>>

\* vite:beforeUpdate, for a subscription: the registered hook calls unlisten;
\* a subscription without a registered hook is left as it is.
BeforeUpdate(sub) ==
    IF sub.hook THEN [sub EXCEPT !.state = "torn"] ELSE sub

\* A hot update replaces the module: the hooks registered for
\* vite:beforeUpdate run, then the module executes again, with two new
\* registries and two new listen calls. The registries of the replaced
\* execution have no handlers attached any more, and its unregister closures
\* act on those registries only.
Reload ==
    /\ Context < MaxReloads
    /\ subscriptions' =
           [n \in DOMAIN subscriptions |-> BeforeUpdate(subscriptions[n])]
              \o <<Listen("sign", Context + 1), Listen("pay", Context + 1)>>
    /\ signEventRequestHandlers' = EmptyRegistry
    /\ payInvoiceRequestHandlers' = EmptyRegistry
    /\ registrations' = <<>>
    /\ UNCHANGED <<requests, app>>

\* The callbacks the active subscriptions in ns run for one event, oldest
\* subscription first: the current execution polls its registry, a replaced
\* one its own, which has no handlers attached.
RECURSIVE Deliveries(_, _, _, _)
Deliveries(ns, kind, payload, handlers) ==
    IF ns = {} THEN <<>>
    ELSE LET n == CHOOSE m \in ns : \A k \in ns : m <= k
             req == IF subscriptions[n].context = Context
                    THEN Listener(kind, payload, handlers)
                    ELSE [Listener(kind, payload, EmptyRegistry)
                             EXCEPT !.stale = TRUE]
         IN <<req>> \o Deliveries(ns \ {n}, kind, payload, handlers)

\* The backend emits an event of the kind: every active subscription of the
\* kind runs its listener callback for it.
Emit(kind, payload) ==
    /\ Len(requests) < MaxInFlight
    /\ Active(kind) # {}
    /\ requests' = requests \o
           Deliveries(Active(kind), kind, payload,
                      IF kind = "sign" THEN signEventRequestHandlers
                                       ELSE payInvoiceRequestHandlers)
    /\ UNCHANGED <<signEventRequestHandlers, payInvoiceRequestHandlers,
                   registrations, app, subscriptions>>

(* ---------------------------- specification --------------------------- *)

\* The module has executed and its two listen promises have resolved; the
\* App component is mounted with its initial state.
Init ==
    /\ signEventRequestHandlers = EmptyRegistry
    /\ payInvoiceRequestHandlers = EmptyRegistry
    /\ registrations = <<>>
    /\ requests = <<>>
    /\ app = [open |-> FALSE, event |-> Undefined, resolveRejectRef |-> Null]
    /\ subscriptions = <<[Listen("sign", 0) EXCEPT !.state = "active", !.hook = TRUE],
                         [Listen("pay", 0) EXCEPT !.state = "active", !.hook = TRUE]>>

\* The module has just executed: its two listen promises are still pending.
InitLoading ==
    /\ signEventRequestHandlers = EmptyRegistry
    /\ payInvoiceRequestHandlers = EmptyRegistry
    /\ registrations = <<>>
    /\ requests = <<>>
    /\ app = [open |-> FALSE, event |-> Undefined, resolveRejectRef |-> Null]
    /\ subscriptions = <<Listen("sign", 0), Listen("pay", 0)>>

Next ==
    \/ \E handler \in SignHandlers : handleSignEventRequests(handler)
    \/ \E handler \in PayHandlers : handlePayInvoiceRequests(handler)
    \/ \E n \in 1..MaxRegistrations : Unregister(n)
    \/ \E eventId \in EventIds, userPubkey \in Pubkeys :
          SignEventRequest(eventId, userPubkey)
    \/ \E invoice \in Invoices : PayInvoiceRequest(invoice)
    \/ \E r \in 1..MaxRequests : HandlerSettles(r)

Spec == Init /\ [][Next]_vars

NextSign ==
    \/ \E handler \in SignHandlers : handleSignEventRequests(handler)
    \/ \E n \in 1..MaxRegistrations : Unregister(n)
    \/ \E eventId \in EventIds, userPubkey \in Pubkeys :
          SignEventRequest(eventId, userPubkey)
    \/ \E r \in 1..MaxRequests : HandlerSettles(r)

SpecSign == Init /\ [][NextSign]_vars

NextPay ==
    \/ \E handler \in PayHandlers : handlePayInvoiceRequests(handler)
    \/ \E n \in 1..MaxRegistrations : Unregister(n)
    \/ \E invoice \in Invoices : PayInvoiceRequest(invoice)
    \/ \E r \in 1..MaxRequests : HandlerSettles(r)

SpecPay == Init /\ [][NextPay]_vars

NextRegistry ==
    \/ \E handler \in SignHandlers : handleSignEventRequests(handler)
    \/ \E handler \in PayHandlers : handlePayInvoiceRequests(handler)
    \/ \E n \in 1..MaxRegistrations : Unregister(n)

SpecRegistry == Init /\ [][NextRegistry]_vars

\* Several requests, handler faults and the outcome of the response sends.
NextFaults ==
    \/ \E handler \in SignHandlers : handleSignEventRequests(handler)
    \/ \E handler \in PayHandlers : handlePayInvoiceRequests(handler)
    \/ \E n \in 1..MaxRegistrations : Unregister(n)
    \/ \E eventId \in EventIds, userPubkey \in Pubkeys :
          SignEventRequestInFlight(eventId, userPubkey)
    \/ \E invoice \in Invoices : PayInvoiceRequestInFlight(invoice)
    \/ \E r \in 1..MaxInFlight : HandlerSettles(r)
    \/ \E r \in 1..MaxInFlight, outcome \in {"fulfilled", "rejected"} :
          InvokeSettles(r, outcome)

SpecFaults == Init /\ [][NextFaults]_vars

\* Several requests of both kinds in flight at once: sign-event handlers
\* that deny (the loop goes on to the next handler) and pay-invoice handlers
\* that approve.
ConcurrentSignHandlers == {"signDeny"}
ConcurrentPayHandlers == {"payTrue"}

NextConcurrent ==
    \/ \E handler \in ConcurrentSignHandlers : handleSignEventRequests(handler)
    \/ \E handler \in ConcurrentPayHandlers : handlePayInvoiceRequests(handler)
    \/ \E n \in 1..MaxRegistrations : Unregister(n)
    \/ \E eventId \in EventIds, userPubkey \in Pubkeys :
          SignEventRequestInFlight(eventId, userPubkey)
    \/ \E invoice \in Invoices : PayInvoiceRequestInFlight(invoice)
    \/ \E r \in 1..MaxInFlight : HandlerSettles(r)

SpecConcurrent == Init /\ [][NextConcurrent]_vars

\* The App component as the handler of sign-event requests: its effect
\* registers handleEvent (and its cleanup unregisters it), requests arrive,
\* the user clicks Accept or Reject or closes the dialog.
NextDialog ==
    \/ \E handler \in DialogHandlers : handleSignEventRequests(handler)
    \/ \E n \in 1..MaxRegistrations : Unregister(n)
    \/ \E eventId \in EventIds, userPubkey \in Pubkeys :
          SignEventRequestInFlight(eventId, userPubkey)
    \/ \E value \in {"true", "false"} : Click(value)
    \/ onOpenChange

SpecDialog == Init /\ [][NextDialog]_vars

\* Reloads of the module while the backend emits requests of both kinds.
ReloadSignHandlers == {"signApprove"}
ReloadPayHandlers == {"payTrue"}

NextReload ==
    \/ \E handler \in ReloadSignHandlers : handleSignEventRequests(handler)
    \/ \E handler \in ReloadPayHandlers : handlePayInvoiceRequests(handler)
    \/ \E n \in 1..MaxRegistrations : Unregister(n)
    \/ \E n \in 1..(2 * (MaxReloads + 1)) : ListenResolves(n)
    \/ Reload
    \/ \E eventId \in EventIds, userPubkey \in Pubkeys :
          Emit("sign", <<eventId, userPubkey>>)
    \/ \E invoice \in Invoices : Emit("pay", <<invoice>>)
    \/ \E r \in 1..(MaxInFlight + MaxReloads) : HandlerSettles(r)

SpecReload == InitLoading /\ [][NextReload]_vars

(* ------------------------- reading a request -------------------------- *)

\* The listener callback of the request has ended: it returned after the
\* response call, or a handler fault rejected it.
Terminated(req) == req.pc \in {"done", "rejected"}

\* The one response command the request's kind and payload call for.
ResponseFor(req, approved) ==
    [cmd |-> IF req.kind = "sign" THEN "respond_to_sign_event_request"
                                  ELSE "respond_to_pay_invoice_request",
     key |-> req.payload[1], approved |-> approved]

\* The outcomes of the handler calls of the request that have settled.
Outcomes(req) == {req.calls[k].outcome : k \in DOMAIN req.calls} \ {"pending"}

(* ------------------------------- claims ------------------------------- *)

\* C1: every request gets exactly one response, correlated by its key: never
\* two, and once its dispatch has ended exactly one, carrying the command of
\* its kind and its correlation key (event id / invoice string).
ExactlyOneResponse ==
    \A r \in DOMAIN requests :
       LET req == requests[r]
       IN /\ Len(req.sent) <= 1
          /\ Terminated(req) => Len(req.sent) = 1
          /\ \A i \in DOMAIN req.sent :
                /\ req.sent[i].cmd = ResponseFor(req, "false").cmd
                /\ req.sent[i].key = req.payload[1]

\* C2: sign-event short-circuit: when the k-th polled handler of a sign-event
\* request returns true, no handler after it is invoked (the k-th call is the
\* last call) and the request is answered with approved = true.
SignShortCircuit ==
    \A r \in DOMAIN requests :
       LET req == requests[r]
       IN req.kind = "sign" =>
            \A k \in DOMAIN req.calls :
               req.calls[k].outcome = "true" =>
                  /\ Len(req.calls) = k
                  /\ req.sent = <<ResponseFor(req, "true")>>

\* C2 witness: the first of two polled handlers approved, and the second
\* handler of the snapshot was not invoked.
SignShortCircuitWitness ==
    \E r \in DOMAIN requests :
       /\ requests[r].kind = "sign"
       /\ Len(requests[r].handlers) = 2
       /\ Len(requests[r].calls) = 1
       /\ requests[r].calls[1].outcome = "true"
       /\ requests[r].pc = "done"

\* C3: fault isolation: a handler that throws does not end the dispatch: the
\* callback is never rejected, a handler after it in the snapshot is polled
\* next, and after the last handler has thrown the response is still sent.
FaultIsolation ==
    \A r \in DOMAIN requests :
       LET req == requests[r]
       IN /\ req.pc # "rejected"
          /\ \A k \in DOMAIN req.calls :
                req.calls[k].outcome = "threw" =>
                   IF k < Len(req.handlers)
                   THEN Len(req.calls) > k
                   ELSE Len(req.sent) = 1

\* C4: default-deny: a request that arrives while its registry is empty
\* invokes no handler and is answered with approved = false.
DefaultDeny ==
    \A r \in DOMAIN requests :
       LET req == requests[r]
       IN Len(req.handlers) = 0 =>
            /\ req.calls = <<>>
            /\ req.sent = <<ResponseFor(req, "false")>>

\* C4 witness: a pay-invoice request found its registry empty (while a
\* sign-event handler was registered) and has been answered.
DefaultDenyWitness ==
    \E r \in DOMAIN requests :
       /\ requests[r].kind = "pay"
       /\ Len(requests[r].handlers) = 0
       /\ Len(requests[r].sent) = 1
       /\ Keys(signEventRequestHandlers) # {}

\* C5: sign-event exhaustion: a finished sign-event request all of whose
\* polled handlers returned false has invoked every handler of its snapshot
\* exactly once, with (event, requester public key), and is answered with
\* approved = false; a response with approved = true is only sent when some
\* polled handler returned true.
SignExhaustion ==
    \A r \in DOMAIN requests :
       LET req == requests[r]
       IN req.kind = "sign" =>
            /\ (req.pc = "done" /\ Outcomes(req) \subseteq {"false"}) =>
                  /\ Len(req.calls) = Len(req.handlers)
                  /\ \A k \in DOMAIN req.calls :
                        /\ req.calls[k].handlerId = req.handlers[k].id
                        /\ req.calls[k].fn = req.handlers[k].fn
                        /\ req.calls[k].args = req.payload
                  /\ \A j, k \in DOMAIN req.calls :
                        j # k => req.calls[j].handlerId # req.calls[k].handlerId
                  /\ req.sent = <<ResponseFor(req, "false")>>
            /\ \A i \in DOMAIN req.sent :
                  req.sent[i].approved = "true" => "true" \in Outcomes(req)

\* C5 witness: two handlers were polled, both returned false, and the
\* request has been answered.
SignExhaustionWitness ==
    \E r \in DOMAIN requests :
       /\ requests[r].kind = "sign"
       /\ requests[r].pc = "done"
       /\ Len(requests[r].calls) = 2
       /\ Outcomes(requests[r]) = {"false"}

\* C6: pay-invoice short-circuit: a polled handler returning "paid" ends the
\* polling (its call is the last call of the request), and a handler returning
\* "failed" or "denied" does not: the next handler of the snapshot is invoked.
PayShortCircuit ==
    \A r \in DOMAIN requests :
       LET req == requests[r]
       IN req.kind = "pay" =>
            \A k \in DOMAIN req.calls :
               /\ req.calls[k].outcome = "paid" => Len(req.calls) = k
               /\ (req.calls[k].outcome \in {"failed", "denied"}
                     /\ k < Len(req.handlers)) => Len(req.calls) > k

\* The opinions of the handlers in the snapshot of the request.
Opinions(req) == {HandlerOutcome(req.handlers[k].fn).value : k \in DOMAIN req.handlers}

\* C7: pay-invoice three-tier reduction: for a finished request whose snapshot
\* holds only handlers with an opinion of paid, failed or denied, the verdict
\* the dispatch ends with is paid if some handler says paid, else failed if
\* some handler says failed, else denied (also with no handler registered,
\* where the verdict false is read as denied): [denied, failed] gives failed.
PayThreeTierReduction ==
    \A r \in DOMAIN requests :
       LET req == requests[r]
           verdict == IF req.isApproved = "false" THEN "denied" ELSE req.isApproved
       IN (req.kind = "pay" /\ req.pc = "done"
             /\ Opinions(req) \subseteq {"paid", "failed", "denied"}) =>
            verdict = IF "paid" \in Opinions(req) THEN "paid"
                      ELSE IF "failed" \in Opinions(req) THEN "failed"
                      ELSE "denied"

\* C8: pay-invoice boolean projection: the approved argument of the response
\* is a boolean, true exactly when a polled handler reported the invoice paid
\* (the outcome "paid", or true from a boolean handler); an opinion of failed
\* or denied is never followed by a response other than approved = false.
PayBooleanProjection ==
    \A r \in DOMAIN requests :
       LET req == requests[r]
       IN req.kind = "pay" =>
            \A i \in DOMAIN req.sent :
               /\ req.sent[i].approved \in {"true", "false"}
               /\ req.sent[i].approved = "true" <=>
                     (Outcomes(req) \cap {"paid", "true"} # {})
               /\ (req.calls # <<>>
                     /\ req.calls[Len(req.calls)].outcome \in {"failed", "denied"}) =>
                        req.sent[i].approved = "false"

\* The n-th unregister closure is called a second or later time.
RepeatedUnregister(n) == registrations[n].called /\ Unregister(n)

\* C9: the unregister capability is idempotent: a second or later call of the
\* same capability leaves both registries unchanged (so it never removes a
\* handler a different registration added).
UnregisterIdempotent ==
    [][\A n \in DOMAIN registrations :
          RepeatedUnregister(n) =>
             UNCHANGED <<signEventRequestHandlers, payInvoiceRequestHandlers>>]_vars

\* The registry of a request kind.
Registry(kind) ==
    IF kind = "sign" THEN signEventRequestHandlers ELSE payInvoiceRequestHandlers

\* A register call: a registration record is appended. Its id was no key of
\* its registry before the call, and the call adds that one entry and changes
\* no other entry of the registry.
RegistersFresh ==
    Len(registrations') = Len(registrations) + 1 =>
       LET reg == registrations'[Len(registrations')]
           before == Registry(reg.kind)
           after == IF reg.kind = "sign" THEN signEventRequestHandlers'
                                         ELSE payInvoiceRequestHandlers'
       IN /\ reg.handlerId \notin Keys(before)
          /\ Keys(after) = Keys(before) \cup {reg.handlerId}
          /\ \A id \in Keys(before) : after[id] = before[id]

\* With no unregister call so far, each registry holds as many entries as
\* register calls were made on it.
OneEntryPerRegistration ==
    (\A n \in DOMAIN registrations : ~registrations[n].called) =>
       \A kind \in {"sign", "pay"} :
          Cardinality(Keys(Registry(kind))) =
             Cardinality({n \in DOMAIN registrations : registrations[n].kind = kind})

\* C10: identity freshness: every registration stores its handler under an
\* id that is not a key of the registry at the call, adds exactly one entry
\* and overwrites none; N registrations without an unregistration leave N
\* entries under N distinct ids.
IdentityFreshness == [][RegistersFresh]_vars /\ []OneEntryPerRegistration

\* C10 witness: the same handler function was registered twice, nothing was
\* unregistered, and the registry holds it under two ids.
IdentityFreshnessWitness ==
    /\ Len(registrations) = 2
    /\ \A n \in DOMAIN registrations : ~registrations[n].called
    /\ \E i, j \in Keys(signEventRequestHandlers) :
          i # j /\ signEventRequestHandlers[i] = signEventRequestHandlers[j]

\* The handler calls of the request that have not settled yet.
Pending(req) == {k \in DOMAIN req.calls : req.calls[k].outcome = "pending"}

\* C11: sequential polling: a request has at most one handler call in flight,
\* which is its latest call (every earlier call has settled before the next
\* handler was invoked), and its response is sent only when no call is in
\* flight.
SequentialPolling ==
    \A r \in DOMAIN requests :
       LET req == requests[r]
       IN /\ Cardinality(Pending(req)) <= 1
          /\ Pending(req) \subseteq {Len(req.calls)}
          /\ req.sent # <<>> => Pending(req) = {}

\* C11 witness: the second handler of a request is in flight after the first
\* one has settled, and no response has been sent yet.
SequentialPollingWitness ==
    \E r \in DOMAIN requests :
       /\ Len(requests[r].calls) = 2
       /\ requests[r].calls[1].outcome = "false"
       /\ Pending(requests[r]) = {2}
       /\ requests[r].sent = <<>>

\* The k-th handler call of the request is a call of the k-th handler of the
\* array the request took at its arrival.
CallsFollowSnapshot(req) ==
    /\ Len(req.calls) <= Len(req.handlers)
    /\ \A k \in DOMAIN req.calls :
          /\ req.calls[k].handlerId = req.handlers[k].id
          /\ req.calls[k].fn = req.handlers[k].fn

\* C14: snapshot semantics: the handlers of a request are the contents of its
\* registry at the step the request arrives; no later step changes them
\* (whatever is registered or unregistered meanwhile), and every handler call
\* of the request is a call of the next handler of that snapshot.
SnapshotSemantics ==
    [][\A r \in DOMAIN requests' :
          /\ r \notin DOMAIN requests =>
                requests'[r].handlers = ObjectValues(Registry(requests'[r].kind))
          /\ r \in DOMAIN requests =>
                requests'[r].handlers = requests[r].handlers
          /\ CallsFollowSnapshot(requests'[r])]_vars

\* C14 witness: the second handler of a snapshot has been invoked although it
\* is no longer in the registry.
SnapshotSemanticsWitness ==
    \E r \in DOMAIN requests :
       /\ Len(requests[r].calls) = 2
       /\ requests[r].calls[2].handlerId \notin Keys(Registry(requests[r].kind))

\* A step changes at most one of: the sign-event registry, the pay-invoice
\* registry, the requests; and a register or unregister call of one kind
\* leaves the registry of the other kind as it is.
RegistryFrame ==
    /\ signEventRequestHandlers' # signEventRequestHandlers =>
          UNCHANGED <<payInvoiceRequestHandlers, requests>>
    /\ payInvoiceRequestHandlers' # payInvoiceRequestHandlers =>
          UNCHANGED <<signEventRequestHandlers, requests>>
    /\ requests' # requests =>
          UNCHANGED <<signEventRequestHandlers, payInvoiceRequestHandlers>>
    /\ \A n \in DOMAIN registrations' :
          (n \notin DOMAIN registrations \/ registrations'[n] # registrations[n]) =>
             IF registrations'[n].kind = "sign"
             THEN UNCHANGED payInvoiceRequestHandlers
             ELSE UNCHANGED signEventRequestHandlers

\* Every handler call of a request is a call of a handler function that was
\* registered for requests of its kind.
HandlersOfOwnKind ==
    \A r \in DOMAIN requests :
       \A k \in DOMAIN requests[r].calls :
          requests[r].calls[k].fn \in
             (IF requests[r].kind = "sign" THEN SignHandlers ELSE PayHandlers)

\* C19: registry separation and frame: register and unregister calls of one
\* kind leave the other registry unchanged, dispatching and answering a
\* request changes neither registry, and a handler is only ever invoked for
\* requests of the kind it was registered for.
RegistrySeparation == [][RegistryFrame]_vars /\ []HandlersOfOwnKind

\* C19 witness: a pay-invoice handler was registered and unregistered again
\* while a sign-event handler stays registered and has been invoked.
RegistrySeparationWitness ==
    /\ \E n \in DOMAIN registrations :
          registrations[n].kind = "pay" /\ registrations[n].called
    /\ Keys(signEventRequestHandlers) # {}
    /\ \E r \in DOMAIN requests :
          requests[r].kind = "sign" /\ requests[r].calls # <<>>

RECURSIVE PollFrom(_, _, _)
\* The value of isApproved after the for-of loop over the array `handlers`
\* from its k-th element on, when no handler throws: each value is assigned,
\* and the first truthy one ends the loop.
PollFrom(handlers, k, isApproved) ==
    IF k > Len(handlers) THEN isApproved
    ELSE LET v == HandlerOutcome(handlers[k].fn).value
         IN IF BreakLoop(v) THEN v ELSE PollFrom(handlers, k + 1, v)

\* The verdict a dispatch over the array `handlers` ends with.
LoopVerdict(handlers) == PollFrom(handlers, 1, InitialIsApproved)

\* The orders in which the elements of a sequence can be polled.
PollOrders(seq) ==
    {[i \in DOMAIN seq |-> seq[p[i]]] :
        p \in {q \in [DOMAIN seq -> DOMAIN seq] :
                 \A i, j \in DOMAIN seq : i # j => q[i] # q[j]}}

\* A verdict that approves the request: the boolean true, or the outcome
\* "paid" of a pay-invoice handler.
Approves(v) == v \in {"true", "paid"}

\* A finished request whose snapshot holds no throwing handler was answered
\* with a verdict that approves exactly if the verdict of polling the same
\* handlers in any other order does.
OrderIndependent(req) ==
    (req.pc = "done"
       /\ \A k \in DOMAIN req.handlers :
             HandlerOutcome(req.handlers[k].fn).type = "return") =>
      \A order \in PollOrders(req.handlers) :
         \A i \in DOMAIN req.sent :
            Approves(req.sent[i].approved) <=> Approves(LoopVerdict(order))

\* C18: order-independence of the verdict: the verdict sent for a request of
\* either kind is the same for every poll order of its snapshot.
VerdictOrderIndependent ==
    \A r \in DOMAIN requests : OrderIndependent(requests[r])

\* The sign-event half of C18, which holds: the verdict of a sign-event
\* request is the same for every poll order, and approved is true exactly
\* when some handler of the snapshot returns true.
SignVerdictOrderIndependent ==
    \A r \in DOMAIN requests :
       LET req == requests[r]
       IN req.kind = "sign" =>
            /\ OrderIndependent(req)
            /\ (req.pc = "done" /\ "threw" \notin Opinions(req)) =>
                  (req.sent[1].approved = "true" <=> "true" \in Opinions(req))

\* C17: conditional liveness, in the form a finite run decides (the callback
\* continues synchronously when an awaited call settles): a request none of
\* whose invoked handlers is unsettled has its response; a request with an
\* unsettled handler call has no response and has invoked no later handler.
RespondsOnceHandlersSettle ==
    \A r \in DOMAIN requests :
       LET req == requests[r]
       IN /\ Pending(req) = {} => Len(req.sent) = 1
          /\ Pending(req) # {} =>
                /\ req.sent = <<>>
                /\ Pending(req) = {Len(req.calls)}

\* C12: transport fault on the response send: the response is sent at most
\* once, also after its send failed, and a failed send is observed by the
\* dispatch of the request: its listener callback is rejected.
TransportFaultObserved ==
    \A r \in DOMAIN requests :
       LET req == requests[r]
       IN /\ Len(req.sent) <= 1
          /\ req.promise = "rejected" => req.pc = "rejected"

\* The half of C12 that holds: one send per request and no retry, whatever
\* the outcome of the send, and the failure settles the promise the response
\* command returned to its caller.
SendsOnceWithoutRetry ==
    \A r \in DOMAIN requests :
       /\ Len(requests[r].sent) <= 1
       /\ requests[r].promise # "none" <=> Len(requests[r].sent) = 1

\* C13: availability after a fault: while a request has met a fault the
\* broker accepts further requests of both kinds, and a request that arrived
\* after a fault is dispatched to the handlers of its snapshot and, once all
\* its invoked handlers have settled, is answered with its own response.
AvailableAfterFault ==
    /\ ((\E q \in DOMAIN requests : Faulted(requests[q]))
           /\ Len(requests) < MaxInFlight) =>
          /\ \A eventId \in EventIds, userPubkey \in Pubkeys :
                ENABLED SignEventRequestInFlight(eventId, userPubkey)
          /\ \A invoice \in Invoices : ENABLED PayInvoiceRequestInFlight(invoice)
    /\ \A r \in DOMAIN requests :
          LET req == requests[r]
          IN req.afterFault =>
               /\ CallsFollowSnapshot(req)
               /\ Pending(req) = {} => req.sent = <<ResponseFor(req, req.isApproved)>>

\* The verdict the request's own handler invocations have left: the opinion
\* the latest of its settled invocations returned, or the initial verdict.
OwnVerdict(req) ==
    LET settled == DOMAIN req.calls \ Pending(req)
    IN IF settled = {} THEN InitialIsApproved
       ELSE LET last == CHOOSE k \in settled : \A j \in settled : j <= k
            IN HandlerOutcome(req.calls[last].fn).value

\* The requests that wait for a handler call to settle.
Waiting == {r \in DOMAIN requests : Pending(requests[r]) # {}}

\* Every waiting request can be resumed whatever other requests wait, further
\* requests are accepted, and register and unregister calls go through.
AllProceed ==
    /\ \A q \in Waiting : ENABLED HandlerSettles(q)
    /\ Len(requests) < MaxInFlight =>
          /\ \A eventId \in EventIds, userPubkey \in Pubkeys :
                ENABLED SignEventRequestInFlight(eventId, userPubkey)
          /\ \A invoice \in Invoices : ENABLED PayInvoiceRequestInFlight(invoice)
    /\ Len(registrations) < MaxRegistrations =>
          /\ \A handler \in ConcurrentSignHandlers :
                ENABLED handleSignEventRequests(handler)
          /\ \A handler \in ConcurrentPayHandlers :
                ENABLED handlePayInvoiceRequests(handler)
    /\ \A n \in DOMAIN registrations : ENABLED Unregister(n)

\* C15: independence of in-flight requests: the response of every request
\* carries the verdict its own handler invocations left; while a handler call
\* of some request is unsettled, every request with an unsettled call can be
\* resumed whatever the others do (and is answered by that step if its loop
\* ends), further requests are accepted, and register and unregister calls go
\* through; a step of one request changes no other request.
IndependentInFlight ==
    /\ []((\A r \in DOMAIN requests :
             \A i \in DOMAIN requests[r].sent :
                requests[r].sent[i] = ResponseFor(requests[r], OwnVerdict(requests[r])))
          /\ (Waiting # {} => AllProceed))
    /\ [][\A r \in DOMAIN requests :
            requests'[r] # requests[r] =>
               \A q \in DOMAIN requests \ {r} : requests'[q] = requests[q]]_vars

\* Two requests are in flight, the earlier one still waits for its handler,
\* the later one has been answered.
IndependentInFlightWitness ==
    \E r, q \in DOMAIN requests :
       /\ r < q
       /\ Pending(requests[r]) # {}
       /\ Len(requests[q].sent) = 1
       /\ requests[q].calls # <<>>

\* C16: dialog handler single-shot resolution: a settled promise of the
\* dialog handler holds true or false, the value of the click that settled
\* it, and every promise of the dialog handler that is still pending is the
\* one whose resolve function resolveRejectRef holds, so that a later Accept
\* or Reject click settles it; in particular with two requests waiting for
\* the dialog at once.
DialogSingleShot ==
    \A r \in DOMAIN requests :
       \A k \in DOMAIN requests[r].calls :
          LET call == requests[r].calls[k]
          IN call.fn \in DialogHandlers =>
               /\ call.outcome \in {"pending", "true", "false"}
               /\ call.outcome = "pending" => app.resolveRejectRef = <<r, k>>

\* C20: subscription teardown on reload: at most one subscription of each
\* kind receives the backend's events, and no request is answered by the
\* subscription of a replaced execution of the module.
SingleLiveSubscription ==
    /\ \A kind \in {"sign", "pay"} : Cardinality(Active(kind)) <= 1
    /\ \A r \in DOMAIN requests : requests[r].stale => requests[r].sent = <<>>

====
